---- MODULE Spec2Model ----
(***************************************************************************)
(* A model of log_api_system: the two line parsers (core.py), the cache    *)
(* stores and the fixed-window rate limiter (cache.py), the cache-aside    *)
(* analyser (core.py) and the batch endpoints (app.py).                    *)
(*                                                                         *)
(* A log line is a sequence of atoms.  An atom stands for a run of         *)
(* characters that the parsers never look inside: the blank, a JSON        *)
(* punctuation mark, or a word.  The text of a line is the concatenation   *)
(* of its atoms.                                                           *)
(***************************************************************************)
EXTENDS Naturals, Sequences, FiniteSets, TLC

\* ------------------------------------------------------------ values

\* Python's None
None == "None"
\* core.py:16 and core.py:24, the set literal {"INFO", "WARNING", "ERROR"}
Levels == {"INFO", "WARNING", "ERROR"}

SP == " "
QUOTE == "\""

\* the result of a call: a returned value or a raised exception
Ret(v) == [exc |-> "", val |-> v]
Raise(e) == [exc |-> e, val |-> None]

\* str: the characters of a line
RECURSIVE Text(_)
Text(line) == IF line = <<>> THEN "" ELSE Head(line) \o Text(Tail(line))

\* ------------------------------------------------------------ PlainTextParser

\* str.strip().split(): the maximal runs of non-blank characters, in order
RECURSIVE SplitAcc(_, _, _)
SplitAcc(rest, cur, acc) ==
    IF rest = <<>>
    THEN IF cur = "" THEN acc ELSE Append(acc, cur)
    ELSE IF Head(rest) = SP
         THEN SplitAcc(Tail(rest), "", IF cur = "" THEN acc ELSE Append(acc, cur))
         ELSE SplitAcc(Tail(rest), cur \o Head(rest), acc)

Split(line) == SplitAcc(line, "", <<>>)

\* PlainTextParser.parse_level: parts[2] raises IndexError on a short list,
\* and the function falls off its end (returns None) on any other token
PlainTextParser_parse_level(line) ==
    LET parts == Split(line)
    IN  IF Len(parts) < 3 THEN Raise("IndexError")
        ELSE IF parts[3] \in Levels THEN Ret(parts[3]) ELSE Ret(None)

\* ------------------------------------------------------------ JSONTextParser

Punct == {"{", "}", "[", "]", ":", ","}
NumberAtoms == {"1"}
LiteralAtoms == {"null", "true"}

Tok(t, v) == [t |-> t, v |-> v]

\* the scanner of json.loads: blanks between tokens are skipped, a string runs
\* from a quote to the next quote, a bare word must be a number or a literal
RECURSIVE LexAcc(_, _, _, _)
LexAcc(rest, inStr, cur, acc) ==
    IF rest = <<>>
    THEN IF inStr THEN Append(acc, Tok("bad", "")) ELSE acc
    ELSE LET c == Head(rest) IN
         IF inStr
         THEN IF c = QUOTE
              THEN LexAcc(Tail(rest), FALSE, "", Append(acc, Tok("str", cur)))
              ELSE LexAcc(Tail(rest), TRUE, cur \o c, acc)
         ELSE IF c = QUOTE THEN LexAcc(Tail(rest), TRUE, "", acc)
         ELSE IF c = SP THEN LexAcc(Tail(rest), FALSE, "", acc)
         ELSE IF c \in Punct THEN LexAcc(Tail(rest), FALSE, "", Append(acc, Tok("punct", c)))
         ELSE IF c \in NumberAtoms THEN LexAcc(Tail(rest), FALSE, "", Append(acc, Tok("num", c)))
         ELSE IF c \in LiteralAtoms THEN LexAcc(Tail(rest), FALSE, "", Append(acc, Tok("lit", c)))
         ELSE LexAcc(Tail(rest), FALSE, "", Append(acc, Tok("bad", c)))

Lex(line) == LexAcc(line, FALSE, "", <<>>)

\* a decoded value: its Python type k, its characters s when it is a str, and,
\* when it is a dict, the type and characters of what it holds under "level"
NoLevel == [k |-> "absent", s |-> ""]
Val(k, s, lv, next) == [ok |-> TRUE, k |-> k, s |-> s, lv |-> lv, next |-> next]
Bad == [ok |-> FALSE, k |-> "", s |-> "", lv |-> NoLevel, next |-> 0]

IsPunct(toks, i, p) == i <= Len(toks) /\ toks[i] = Tok("punct", p)

\* the decoder of json.loads, by recursive descent; in a dict a repeated key
\* keeps its last value
RECURSIVE ParseValue(_, _), ParseMembers(_, _, _), ParseElements(_, _)
ParseValue(toks, i) ==
    IF i > Len(toks) THEN Bad
    ELSE LET t == toks[i] IN
         CASE t.t = "str" -> Val("str", t.v, NoLevel, i + 1)
           [] t.t = "num" -> Val("int", "", NoLevel, i + 1)
           [] t.t = "lit" -> Val(IF t.v = "null" THEN "NoneType" ELSE "bool", "", NoLevel, i + 1)
           [] t = Tok("punct", "{") ->
                IF IsPunct(toks, i + 1, "}") THEN Val("dict", "", NoLevel, i + 2)
                ELSE ParseMembers(toks, i + 1, NoLevel)
           [] t = Tok("punct", "[") ->
                IF IsPunct(toks, i + 1, "]") THEN Val("list", "", NoLevel, i + 2)
                ELSE ParseElements(toks, i + 1)
           [] OTHER -> Bad

ParseMembers(toks, i, lv) ==
    IF i > Len(toks) \/ toks[i].t # "str" \/ ~IsPunct(toks, i + 1, ":") THEN Bad
    ELSE LET v == ParseValue(toks, i + 2)
             lv2 == IF toks[i].v = "level" THEN [k |-> v.k, s |-> v.s] ELSE lv
         IN  IF ~v.ok THEN Bad
             ELSE IF IsPunct(toks, v.next, "}") THEN Val("dict", "", lv2, v.next + 1)
             ELSE IF IsPunct(toks, v.next, ",") THEN ParseMembers(toks, v.next + 1, lv2)
             ELSE Bad

ParseElements(toks, i) ==
    LET v == ParseValue(toks, i)
    IN  IF ~v.ok THEN Bad
        ELSE IF IsPunct(toks, v.next, "]") THEN Val("list", "", NoLevel, v.next + 1)
        ELSE IF IsPunct(toks, v.next, ",") THEN ParseElements(toks, v.next + 1)
        ELSE Bad

\* json.loads: one value, then the end of the text; anything else is a
\* JSONDecodeError (ok = FALSE)
json_loads(line) ==
    LET toks == Lex(line)
        v == ParseValue(toks, 1)
    IN  IF v.ok /\ v.next = Len(toks) + 1 THEN v ELSE Bad

\* JSONTextParser.parse_level: json.loads raises on a malformed text, .get
\* exists on a dict only, membership in a set hashes the value (a list or a
\* dict is unhashable), and the function falls off its end otherwise
JSONTextParser_parse_level(line) ==
    LET obj == json_loads(line)
    IN  IF ~obj.ok THEN Raise("JSONDecodeError")
        ELSE IF obj.k # "dict" THEN Raise("AttributeError")
        ELSE IF obj.lv.k \in {"list", "dict"} THEN Raise("TypeError")
        ELSE IF obj.lv.k = "str" /\ obj.lv.s \in Levels THEN Ret(obj.lv.s)
        ELSE Ret(None)

\* app.py: PlainTextParser() if req.mode == "plain" else JSONTextParser()
Modes == {"plain", "json"}
parse_level(mode, line) ==
    IF mode = "plain" THEN PlainTextParser_parse_level(line)
    ELSE JSONTextParser_parse_level(line)

\* ------------------------------------------------------------ inputs

\* the lines of the example batch of the specification, a one-token line, a
\* three-token line with an unknown level, and two structured records; the
\* last one reads as INFO to the plain parser and as ERROR to the JSON parser
LineInfo == <<"ts", SP, "svcA", SP, "INFO", SP, "start">>
LineError == <<"ts", SP, "svcA", SP, "ERROR", SP, "fail">>
LineGarbage == <<"garbage">>
LineDebug == <<"ts", SP, "svcA", SP, "DEBUG">>
LineJsonWarn == <<"{", QUOTE, "level", QUOTE, ":", QUOTE, "WARNING", QUOTE, "}">>
LineBoth == <<"{", QUOTE, "m", QUOTE, ":", QUOTE, "x", SP, "y", SP, "INFO", SP, QUOTE, ",",
              QUOTE, "level", QUOTE, ":", QUOTE, "ERROR", QUOTE, "}">>

\* the longest plain line and the most members of a record that are enumerated
MaxPlainLen == 5
MaxMembers == 2

RECURSIVE SeqsUpTo(_, _)
SeqsUpTo(S, n) ==
    IF n = 0 THEN {<<>>}
    ELSE LET shorter == SeqsUpTo(S, n - 1)
         IN  shorter \cup {Append(s, x) : s \in {t \in shorter : Len(t) = n - 1}, x \in S}

PlainAlphabet == {SP, "x", "INFO", "WARNING", "ERROR"}
PlainLines == SeqsUpTo(PlainAlphabet, MaxPlainLen)

Quoted(w) == <<QUOTE, w, QUOTE>>
JsonValues == {Quoted("INFO"), Quoted("WARNING"), Quoted("ERROR"), Quoted("DEBUG"),
               <<"1">>, <<"null">>, <<"[", "]">>, <<"[">> \o Quoted("INFO") \o <<"]">>,
               <<"{", "}">>}
JsonKeys == {"level", "msg"}
JsonMembers == {Quoted(k) \o <<":", SP>> \o v : k \in JsonKeys, v \in JsonValues}

\* json.dumps of a record: its members separated by ", " between braces
RECURSIVE Join(_)
Join(ms) == IF ms = <<>> THEN <<>>
            ELSE IF Len(ms) = 1 THEN ms[1]
            ELSE ms[1] \o <<",", SP>> \o Join(Tail(ms))
Render(ms) == <<"{">> \o Join(ms) \o <<"}">>

Prefixes(s) == {SubSeq(s, 1, n) : n \in 0..Len(s)}
\* records and bare values as written by json.dumps, and every truncation of one
JsonLines == UNION {Prefixes(Render(ms)) : ms \in SeqsUpTo(JsonMembers, MaxMembers)}
             \cup JsonValues

SampleLines == {LineInfo, LineError, LineGarbage, LineDebug, LineJsonWarn, LineBoth}
ParseInputs == PlainLines \cup JsonLines \cup SampleLines

\* ------------------------------------------------------------ configuration

\* app.py:20 RATE_LIMIT = 100, here scaled down so that a window fills up
RATE_LIMIT == 2
\* app.py:24 MAX_CONCURRENCY = 20 and app.py:25 THREAD_WORKERS = 20, scaled down
MAX_CONCURRENCY == 2
THREAD_WORKERS == 2
\* the largest value a rate counter is let to reach (the retry loop is unbounded)
MaxCount == 4
\* the number of requests in flight at once
NumRequests == 2
\* the longest batch that is enumerated (the example batch apart)
MaxBatch == 2

Requests == 1..NumRequests
\* a deployment of the service with a store of its own
Sites == {1, 2}

Endpoints == {"/parse", "/batch", "/batch_threads", "/cpu_processes"}

\* app.py:22, app.py:85, app.py:102: the key each endpoint passes to allow
RateKey(endpoint) == "ratelimit:log_api:" \o endpoint
RateKeys == {RateKey(e) : e \in Endpoints \ {"/parse"}}

\* line_cache_key: the namespace tag and the digest of the line's characters;
\* the digest is modelled as collision-free (the characters themselves)
line_cache_key(line) == "loglevel:" \o Text(line)

\* ------------------------------------------------------------ the stores

\* an entry of the networked store: a string value or a counter n, and
\* whether an expiry is armed on the key
Absent == [has |-> FALSE, val |-> None, n |-> 0, ttl |-> FALSE]

\* NoopCache.get
NoopCache_get(st, key) == None
\* NoopCache.set
NoopCache_set(st, key, value) == Ret(st)
\* a no-op store that fails closed
NoopAllowClosed(key, limit) == FALSE
\* NoopCache.allow
NoopCache_allow(key, limit) == TRUE

\* RedisCache.get: GET, None when the key is absent
RedisCache_get(st, key) == IF st[key].has THEN st[key].val ELSE None

\* RedisCache.set: SETEX stores the value and arms its expiry; the client
\* refuses to encode None (DataError)
RedisCache_set(st, key, value) ==
    IF value = None THEN Raise("DataError")
    ELSE Ret([st EXCEPT ![key] = [has |-> TRUE, val |-> value, n |-> 0, ttl |-> TRUE]])

\* an increment by two
IncrTwice(st, key) == [st EXCEPT ![key] = [@ EXCEPT !.has = TRUE, !.n = @ + 2]]
\* cache.py:42, INCR: an absent key counts from 0 and is created with no
\* expiry; an armed expiry is kept
Incr(st, key) == [st EXCEPT ![key] = [@ EXCEPT !.has = TRUE, !.n = @ + 1]]

\* an allow that forgets to arm the expiry
ExpireForgotten(st, key) == st
\* cache.py:44, EXPIRE: arms the expiry of a key that exists
Expire(st, key) == IF st[key].has THEN [st EXCEPT ![key].ttl = TRUE] ELSE st

\* a caller that also takes the second count of a window for the first
FirstOrSecond(current) == current <= 2
\* cache.py:43, if current == 1: the caller that opened the window
FirstInWindow(current) == current = 1

\* a verdict with < for <=, and one on the count before the increment
AllowedStrict(current, limit) == current < limit
AllowedBefore(current, limit) == current - 1 <= limit
\* cache.py:45, the verdict of allow
Allowed(current, limit) == current <= limit

\* RedisCache.__init__, cache.py:30-33: the client is made and pinged; the
\* ping raises when the store cannot be reached
RedisCache_init(pingOutcome) ==
    IF pingOutcome = "ok" THEN Ret("redis") ELSE Raise("ConnectionError")

\* a wiring that keeps the networked store whatever its construction did
CacheWiringKeep(pingOutcome) == "redis"
\* app.py:15-18: try: cache = RedisCache() except Exception: cache = NoopCache()
CacheWiring(pingOutcome) ==
    IF RedisCache_init(pingOutcome).exc = "" THEN RedisCache_init(pingOutcome).val ELSE "noop"

\* ------------------------------------------------------------ state

VARIABLES
    ping,       \* cache.py:33, what the liveness check of the networked store does
    backend,    \* app.py:15-18, the process-wide cache: "redis" or "noop"
    store,      \* the networked store of each site: key -> entry
    site,       \* the site that serves each request
    pc,         \* where each request is in its handler
    input,      \* each request's endpoint and body (mode, lines)
    current,    \* cache.py:42, the local of allow: what INCR returned
    tasks,      \* one process_line call per line of the batch
    response,   \* what the handler returned
    hRate,      \* history, per rate key: the calls and admissions of its window
    hCall,      \* history, per request: its latest call of allow
    hLine,      \* history, per line key: parser invocations, completed calls
    pArg,       \* the harness of parse_level: the call's mode and line
    pOut        \* its result, or Pending before the call

svars == <<ping, backend, store, site, pc, input, current, tasks, response, hRate, hCall, hLine>>
vars == <<ping, backend, store, site, pc, input, current, tasks, response, hRate, hCall,
          hLine, pArg, pOut>>

Pending == [exc |-> "pending", val |-> None]

\* the lines the requests of the model are made of
ServiceLines == {LineInfo, LineError, LineGarbage, LineDebug, LineBoth}
LineKeys == {line_cache_key(l) : l \in ServiceLines}
Keys == RateKeys \cup LineKeys

NoInput == [endpoint |-> "", mode |-> "", lines |-> <<>>]
NoResponse == [status |-> "none", levels |-> <<>>, counts |-> [x \in {} |-> 0],
               level |-> None, hashes |-> <<>>, total |-> 0]
NoCall == [idx |-> 0, armed |-> FALSE, afterReset |-> FALSE, result |-> "none",
           waited |-> FALSE]
FreshRate == [calls |-> 0, granted |-> 0, phase |-> "fresh", arms |-> 0]
FreshLine == [parses |-> 0, completed |-> FALSE, level |-> None]
NewTask == [st |-> "queued", level |-> None, hit |-> FALSE, exc |-> "",
            after |-> FALSE, prev |-> None, ord |-> 0]

EmptyStore == [k \in Keys |-> Absent]

InitRequests ==
    /\ store = [s \in Sites |-> EmptyStore]
    /\ site = [r \in Requests |-> 1]
    /\ pc = [r \in Requests |-> "idle"]
    /\ input = [r \in Requests |-> NoInput]
    /\ current = [r \in Requests |-> 0]
    /\ tasks = [r \in Requests |-> <<>>]
    /\ response = [r \in Requests |-> NoResponse]
    /\ hRate = [s \in Sites |-> [k \in RateKeys |-> FreshRate]]
    /\ hCall = [r \in Requests |-> NoCall]
    /\ hLine = [s \in Sites |-> [k \in LineKeys |-> FreshLine]]

\* the service once app.py has been imported: the cache is wired
InitService ==
    /\ ping \in {"ok", "raises"}
    /\ backend = CacheWiring(ping)
    /\ InitRequests

NoHarness == pArg = [mode |-> "plain", line |-> <<>>] /\ pOut = Pending

\* ------------------------------------------------------------ admission

\* app.py:65-74, app.py:88-92, app.py:54-56: the analyser is made and one
\* process_line call per line is queued
TasksFor(rq) ==
    IF rq.endpoint = "/cpu_processes" THEN <<>>
    ELSE [i \in DOMAIN rq.lines |-> NewTask]

\* app.py:37-42, the repeated hash, kept opaque
cpu_heavy(line) == "sha256x20000:" \o Text(line)
\* app.py:108, results[:3]
FirstThree(xs) == SubSeq(xs, 1, IF Len(xs) < 3 THEN Len(xs) ELSE 3)

\* app.py:105-108: the process pool hashes the lines; the handler returns the
\* first 3 hashes and the total
CpuResponse(rq) ==
    LET results == [i \in DOMAIN rq.lines |-> cpu_heavy(rq.lines[i])]
    IN  [NoResponse EXCEPT !.status = "ok", !.hashes = FirstThree(results),
                           !.total = Len(results)]

\* the loop around allow (app.py:62-63, 85-86, 102-103): on false the handler
\* sleeps and calls allow again, on true it goes on to its work
AfterAllow(r, ok) ==
    LET cpu == input[r].endpoint = "/cpu_processes"
    IN  /\ pc' = [pc EXCEPT ![r] = IF ~ok THEN "allow" ELSE IF cpu THEN "done" ELSE "running"]
        /\ tasks' = [tasks EXCEPT ![r] = IF ok THEN TasksFor(input[r]) ELSE @]
        /\ response' = [response EXCEPT ![r] = IF ok /\ cpu THEN CpuResponse(input[r]) ELSE @]

\* a request arrives; /parse is not rate limited (app.py:52-57)
Submit(r, menu) ==
    /\ backend \in {"redis", "noop"}
    /\ pc[r] = "idle"
    /\ \E rq \in menu :
         /\ input' = [input EXCEPT ![r] = rq]
         /\ IF rq.endpoint = "/parse"
            THEN /\ pc' = [pc EXCEPT ![r] = "running"]
                 /\ tasks' = [tasks EXCEPT ![r] = TasksFor(rq)]
            ELSE /\ pc' = [pc EXCEPT ![r] = "allow"]
                 /\ UNCHANGED tasks
    /\ UNCHANGED <<ping, backend, store, site, current, response, hRate, hCall, hLine, pArg, pOut>>

\* RedisCache.allow, cache.py:42: current = self.client.incr(key), and, when
\* current is not 1, cache.py:45: return current <= limit
AllowIncr(r) ==
    LET s == site[r]
        k == RateKey(input[r].endpoint)
        st == Incr(store[s], k)
        cur == st[k].n
        ok == Allowed(cur, RATE_LIMIT)
        h == hRate[s][k]
    IN  /\ pc[r] = "allow"
        /\ backend = "redis"
        /\ store[s][k].n < MaxCount
        /\ store' = [store EXCEPT ![s] = st]
        /\ current' = [current EXCEPT ![r] = cur]
        /\ IF FirstInWindow(cur)
           THEN /\ pc' = [pc EXCEPT ![r] = "expire"]
                /\ UNCHANGED <<tasks, response>>
           ELSE AfterAllow(r, ok)
        /\ hRate' = [hRate EXCEPT ![s][k] =
                       [calls |-> h.calls + 1,
                        granted |-> h.granted + (IF ~FirstInWindow(cur) /\ ok THEN 1 ELSE 0),
                        phase |-> IF ~FirstInWindow(cur) /\ ~ok THEN "rejected"
                                  ELSE IF h.phase = "reset" THEN "fresh" ELSE h.phase,
                        arms |-> h.arms]]
        /\ hCall' = [hCall EXCEPT ![r] =
                       [idx |-> h.calls + 1, armed |-> FALSE, afterReset |-> h.phase = "reset",
                        result |-> IF FirstInWindow(cur) THEN "none"
                                   ELSE IF ok THEN "true" ELSE "false",
                        waited |-> hCall[r].waited \/ (~FirstInWindow(cur) /\ ~ok)]]
        /\ UNCHANGED <<ping, backend, site, input, hLine, pArg, pOut>>

\* RedisCache.allow, cache.py:43-45: if current == 1, expire; return
AllowExpire(r) ==
    LET s == site[r]
        k == RateKey(input[r].endpoint)
        ok == Allowed(current[r], RATE_LIMIT)
        h == hRate[s][k]
    IN  /\ pc[r] = "expire"
        /\ store' = [store EXCEPT ![s] = Expire(store[s], k)]
        /\ AfterAllow(r, ok)
        /\ hRate' = [hRate EXCEPT ![s][k] =
                       [h EXCEPT !.granted = @ + (IF ok THEN 1 ELSE 0),
                                 !.phase = IF ok THEN @ ELSE "rejected",
                                 !.arms = @ + (IF Expire(store[s], k)[k].ttl THEN 1 ELSE 0)]]
        /\ hCall' = [hCall EXCEPT ![r] =
                       [@ EXCEPT !.armed = Expire(store[s], k)[k].ttl,
                                 !.result = IF ok THEN "true" ELSE "false",
                                 !.waited = @ \/ ~ok]]
        /\ UNCHANGED <<ping, backend, site, input, current, hLine, pArg, pOut>>

\* NoopCache.allow, called by the same loop
AllowNoop(r) ==
    LET ok == NoopCache_allow(RateKey(input[r].endpoint), RATE_LIMIT)
    IN  /\ pc[r] = "allow"
        /\ backend = "noop"
        /\ AfterAllow(r, ok)
        /\ hCall' = [hCall EXCEPT ![r] =
                       [@ EXCEPT !.result = IF ok THEN "true" ELSE "false",
                                 !.waited = @ \/ ~ok]]
        /\ UNCHANGED <<ping, backend, store, site, input, current, hRate, hLine, pArg, pOut>>

\* the store drops a key whose armed expiry has elapsed
ExpireKey(s, k) ==
    /\ store[s][k].has
    /\ store[s][k].ttl
    /\ store' = [store EXCEPT ![s][k] = Absent]
    /\ hRate' = IF k \in RateKeys
                THEN [hRate EXCEPT ![s][k] =
                        [calls |-> 0, granted |-> 0,
                         phase |-> IF @.phase = "rejected" THEN "reset" ELSE "fresh",
                         arms |-> 0]]
                ELSE hRate
    /\ hLine' = IF k \in LineKeys THEN [hLine EXCEPT ![s][k] = FreshLine] ELSE hLine
    /\ UNCHANGED <<ping, backend, site, pc, input, current, tasks, response, hCall, pArg, pOut>>

\* ------------------------------------------------------------ process_line

\* self.cache.get / self.cache.set of the process-wide cache object
cache_get(st, key) ==
    IF backend = "redis" THEN RedisCache_get(st, key) ELSE NoopCache_get(st, key)
cache_set(st, key, value) ==
    IF backend = "redis" THEN RedisCache_set(st, key, value) ELSE NoopCache_set(st, key, value)

Finished(t) == t.st \in {"done", "raised", "cancelled"}
\* a call that is between its lookup and its write-back
Executing(t) == t.st = "miss"
NumExecuting(r) == Cardinality({i \in DOMAIN tasks[r] : Executing(tasks[r][i])})
\* a handler that answers as soon as every call has ended, raised or not
AllEnded(r) == \A i \in DOMAIN tasks[r] : Finished(tasks[r][i])
AllDone(r) == \A i \in DOMAIN tasks[r] : tasks[r][i].st = "done"
\* the place of the next call to return (or raise) among the calls of its request
NextOrd(r) == Cardinality({i \in DOMAIN tasks[r] : tasks[r][i].ord > 0}) + 1

\* a gate that lets every task of the batch through at once
CapNone(endpoint) == MaxBatch + 1
\* app.py:68 the semaphore, app.py:91 the pool's workers; /parse calls
\* process_line itself
Cap(endpoint) ==
    IF endpoint = "/batch" THEN MAX_CONCURRENCY
    ELSE IF endpoint = "/batch_threads" THEN THREAD_WORKERS
    ELSE 1

\* process_line, core.py:36-41: a queued call starts when the semaphore or the
\* pool has room and looks its line up; a cached level is returned at once.
\* gather does not cancel the other tasks when one has raised.
TaskGet(r, i) ==
    LET s == site[r]
        key == line_cache_key(input[r].lines[i])
        cached == cache_get(store[s], key)
        h == hLine[s][key]
    IN  /\ i \in DOMAIN tasks[r]
        /\ pc[r] \in {"running", "failed"}
        /\ tasks[r][i].st = "queued"
        /\ NumExecuting(r) < Cap(input[r].endpoint)
        /\ IF cached # None
           THEN /\ tasks' = [tasks EXCEPT ![r][i] =
                      [@ EXCEPT !.st = "done", !.level = cached, !.hit = TRUE,
                                !.after = h.completed, !.prev = h.level,
                                !.ord = NextOrd(r)]]
                /\ hLine' = [hLine EXCEPT ![s][key] =
                      [@ EXCEPT !.completed = TRUE, !.level = cached]]
           ELSE /\ tasks' = [tasks EXCEPT ![r][i] =
                      [@ EXCEPT !.st = "miss", !.after = h.completed, !.prev = h.level]]
                /\ UNCHANGED hLine
        /\ UNCHANGED <<ping, backend, store, site, pc, input, current, response, hRate, hCall,
                       pArg, pOut>>

\* process_line, core.py:43-48: the parse, the write-back and the return
TaskParseSet(r, i) ==
    LET s == site[r]
        line == input[r].lines[i]
        key == line_cache_key(line)
        parsed == parse_level(input[r].mode, line)
        written == cache_set(store[s], key, parsed.val)
        h == hLine[s][key]
        parses == IF h.parses < 2 THEN h.parses + 1 ELSE 2
    IN  /\ i \in DOMAIN tasks[r]
        /\ tasks[r][i].st = "miss"
        /\ IF parsed.exc # ""
           THEN /\ tasks' = [tasks EXCEPT ![r][i] = [@ EXCEPT !.st = "raised", !.exc = parsed.exc,
                                                          !.ord = NextOrd(r)]]
                /\ hLine' = [hLine EXCEPT ![s][key] =
                      [parses |-> parses, completed |-> TRUE, level |-> None]]
                /\ UNCHANGED store
           ELSE IF written.exc # ""
           THEN /\ tasks' = [tasks EXCEPT ![r][i] = [@ EXCEPT !.st = "raised", !.exc = written.exc,
                                                          !.ord = NextOrd(r)]]
                /\ hLine' = [hLine EXCEPT ![s][key] =
                      [parses |-> parses, completed |-> TRUE, level |-> None]]
                /\ UNCHANGED store
           ELSE /\ tasks' = [tasks EXCEPT ![r][i] = [@ EXCEPT !.st = "done", !.level = parsed.val,
                                                          !.ord = NextOrd(r)]]
                /\ hLine' = [hLine EXCEPT ![s][key] =
                      [parses |-> parses, completed |-> TRUE, level |-> parsed.val]]
                /\ store' = [store EXCEPT ![s] = written.val]
        /\ UNCHANGED <<ping, backend, site, pc, input, current, response, hRate, hCall, pArg, pOut>>

\* ------------------------------------------------------------ the handlers' ends

\* a tally that sets counts[level] = 1 instead of adding to it
BumpOverwrite(counts, level) ==
    [x \in DOMAIN counts \cup {level} |-> IF x = level THEN 1 ELSE counts[x]]
\* app.py:76-78 and app.py:94-96: counts[level] = counts.get(level, 0) + 1
Bump(counts, level) ==
    [x \in DOMAIN counts \cup {level} |->
        (IF x \in DOMAIN counts THEN counts[x] ELSE 0) + (IF x = level THEN 1 ELSE 0)]

RECURSIVE CountLevels(_, _)
CountLevels(levels, counts) ==
    IF levels = <<>> THEN counts
    ELSE CountLevels(Tail(levels), Bump(counts, Head(levels)))

\* the levels in the order in which the calls returned
LevelsByCompletion(r) ==
    [k \in DOMAIN tasks[r] |->
        tasks[r][CHOOSE i \in DOMAIN tasks[r] : tasks[r][i].ord = k].level]
\* the levels in submission order (gather, pool.map)
LevelsOf(r) == [i \in DOMAIN tasks[r] |-> tasks[r][i].level]

\* app.py:74-80, app.py:92-98, app.py:56-57: every call has returned
Respond(r) ==
    /\ pc[r] = "running"
    /\ AllDone(r)
    /\ response' = [response EXCEPT ![r] =
          IF input[r].endpoint = "/parse"
          THEN [NoResponse EXCEPT !.status = "ok", !.level = tasks[r][1].level]
          ELSE [NoResponse EXCEPT !.status = "ok",
                                  !.levels = LevelsOf(r),
                                  !.counts = CountLevels(LevelsOf(r), [x \in {} |-> 0])]]
    /\ pc' = [pc EXCEPT ![r] = "done"]
    /\ UNCHANGED <<ping, backend, store, site, input, current, tasks, hRate, hCall, hLine,
                   pArg, pOut>>

\* app.py:74: gather raises the first exception of any task to the handler
CoopFail(r) ==
    /\ pc[r] = "running"
    /\ input[r].endpoint = "/batch"
    /\ \E i \in DOMAIN tasks[r] : tasks[r][i].st = "raised"
    /\ pc' = [pc EXCEPT ![r] = "failed"]
    /\ response' = [response EXCEPT ![r] = [NoResponse EXCEPT !.status = "error"]]
    /\ UNCHANGED <<ping, backend, store, site, input, current, tasks, hRate, hCall, hLine,
                   pArg, pOut>>

\* app.py:92: list(pool.map(...)) takes the results in order and raises at the
\* first call that raised; the calls not yet started are cancelled
ThreadFail(r) ==
    /\ pc[r] = "running"
    /\ input[r].endpoint \in {"/batch_threads", "/parse"}
    /\ \E i \in DOMAIN tasks[r] :
         /\ tasks[r][i].st = "raised"
         /\ \A j \in 1..(i - 1) : tasks[r][j].st = "done"
    /\ tasks' = [tasks EXCEPT ![r] =
          [i \in DOMAIN tasks[r] |->
             IF tasks[r][i].st = "queued" THEN [tasks[r][i] EXCEPT !.st = "cancelled"]
             ELSE tasks[r][i]]]
    /\ pc' = [pc EXCEPT ![r] = "shutdown"]
    /\ UNCHANGED <<ping, backend, store, site, input, current, response, hRate, hCall, hLine,
                   pArg, pOut>>

\* app.py:91: leaving the with block waits for the running calls, then the
\* exception leaves the handler
ThreadShutdown(r) ==
    /\ pc[r] = "shutdown"
    /\ NumExecuting(r) = 0
    /\ pc' = [pc EXCEPT ![r] = "failed"]
    /\ response' = [response EXCEPT ![r] = [NoResponse EXCEPT !.status = "error"]]
    /\ UNCHANGED <<ping, backend, store, site, input, current, tasks, hRate, hCall, hLine,
                   pArg, pOut>>

\* the response is sent and the request's objects are dropped
Retire(r) ==
    /\ pc[r] \in {"done", "failed"}
    /\ \A i \in DOMAIN tasks[r] : Finished(tasks[r][i])
    /\ pc' = [pc EXCEPT ![r] = "idle"]
    /\ input' = [input EXCEPT ![r] = NoInput]
    /\ current' = [current EXCEPT ![r] = 0]
    /\ tasks' = [tasks EXCEPT ![r] = <<>>]
    /\ response' = [response EXCEPT ![r] = NoResponse]
    /\ hCall' = [hCall EXCEPT ![r] = NoCall]
    /\ UNCHANGED <<ping, backend, store, site, hRate, hLine, pArg, pOut>>

\* ------------------------------------------------------------ the service

\* One batch request (request 1) and one /parse request (request 2) against
\* the same store: every mode, batches of up to MaxBatch lines and the example
\* batch of the specification.
BatchLines == {LineGarbage, LineBoth}
ParseLines == {LineGarbage, LineDebug, LineBoth}
ExampleBatch == <<LineInfo, LineError, LineGarbage>>
Batches == SeqsUpTo(BatchLines, MaxBatch) \cup {ExampleBatch}
BatchMenu == [endpoint : {"/batch", "/batch_threads"}, mode : Modes, lines : Batches]
ParseMenu == [endpoint : {"/parse"}, mode : Modes, lines : {<<l>> : l \in ParseLines}]

Init == InitService /\ NoHarness

Work(r) ==
    \/ \E i \in 1..(MaxBatch + 1) : TaskGet(r, i) \/ TaskParseSet(r, i)
    \/ Respond(r) \/ CoopFail(r) \/ ThreadFail(r) \/ ThreadShutdown(r)

Next ==
    \/ Submit(1, BatchMenu) \/ Submit(2, ParseMenu)
    \/ \E r \in {1, 2} : AllowIncr(r) \/ AllowExpire(r) \/ AllowNoop(r) \/ Work(r)
    \/ \E k \in LineKeys : ExpireKey(1, k)

Spec == Init /\ [][Next]_vars

\* ------------------------------------------------------------ the rate limiter

\* NumRequests clients that send empty batches to the rate-limited endpoints
\* over and over, a new request as soon as the last one is answered
RateMenu == [endpoint : {"/batch", "/cpu_processes"}, mode : {"plain"}, lines : {<<>>}]

NextRate ==
    \/ \E r \in Requests :
         \/ Submit(r, RateMenu)
         \/ AllowIncr(r) \/ AllowExpire(r) \/ AllowNoop(r)
         \/ Respond(r) \/ Retire(r)
    \/ \E k \in RateKeys : ExpireKey(1, k)

SpecRate == Init /\ [][NextRate]_vars

\* ------------------------------------------------------------ the retry loop

\* a window as n earlier calls of allow left it (their requests are gone)
RECURSIVE Called(_, _, _)
Called(st, key, n) ==
    IF n = 0 THEN st
    ELSE LET inc == Incr(Called(st, key, n - 1), key)
         IN  IF FirstInWindow(inc[key].n) THEN Expire(inc, key) ELSE inc

\* batches of no line and of two lines
RetryMenu == [endpoint : {"/batch", "/cpu_processes"}, mode : {"plain"},
              lines : {<<>>, <<LineInfo, LineError>>}]

\* NumRequests requests, each sent once, meet windows in which up to
\* RATE_LIMIT calls were already made
InitRetry ==
    /\ NoHarness
    /\ ping \in {"ok", "raises"}
    /\ backend = CacheWiring(ping)
    /\ \E n \in 0..RATE_LIMIT :
         LET used == IF backend = "redis" THEN n ELSE 0
             st == [k \in Keys |-> IF k \in RateKeys THEN Called(EmptyStore, k, used)[k]
                                   ELSE Absent]
         IN  /\ store = [s \in Sites |-> IF s = 1 THEN st ELSE EmptyStore]
             /\ hRate = [s \in Sites |-> [k \in RateKeys |->
                           IF s = 1 /\ used > 0
                           THEN [calls |-> used, granted |-> used, phase |-> "fresh",
                                 arms |-> IF st[k].ttl THEN 1 ELSE 0]
                           ELSE FreshRate]]
    /\ site = [r \in Requests |-> 1]
    /\ pc = [r \in Requests |-> "idle"]
    /\ input = [r \in Requests |-> NoInput]
    /\ current = [r \in Requests |-> 0]
    /\ tasks = [r \in Requests |-> <<>>]
    /\ response = [r \in Requests |-> NoResponse]
    /\ hCall = [r \in Requests |-> NoCall]
    /\ hLine = [s \in Sites |-> [k \in LineKeys |-> FreshLine]]

\* the requests carry empty batches
NextRetry ==
    \/ \E r \in Requests :
         \/ Submit(r, RateMenu)
         \/ AllowIncr(r) \/ AllowExpire(r) \/ AllowNoop(r)
         \/ Respond(r)
    \/ \E k \in RateKeys : ExpireKey(1, k)

\* app.py:62-63: the loop calls allow again after its sleep; the store drops a
\* key when its expiry elapses
FairRetry ==
    /\ \A r \in Requests :
          WF_vars(AllowIncr(r)) /\ WF_vars(AllowExpire(r)) /\ WF_vars(AllowNoop(r))
    /\ \A k \in RateKeys : WF_vars(ExpireKey(1, k))

SpecRetry == InitRetry /\ [][NextRetry]_vars /\ FairRetry

\* request 1 carries a batch of RetryMenu, the others carry empty batches
NextAdmit ==
    \/ Submit(1, RetryMenu)
    \/ \E r \in Requests \ {1} : Submit(r, RateMenu)
    \/ \E r \in Requests :
         \/ AllowIncr(r) \/ AllowExpire(r) \/ AllowNoop(r)
         \/ \E i \in 1..MaxBatch : TaskGet(r, i) \/ TaskParseSet(r, i)
         \/ Respond(r)
    \/ \E k \in RateKeys : ExpireKey(1, k)

SpecAdmit == InitRetry /\ [][NextAdmit]_vars

\* ------------------------------------------------------------ the no-op store

\* a client that sends one request after the other, of any kind, to a service
\* whose networked store could not be reached
InitNoop == Init /\ backend = "noop"

NextNoop ==
    \/ Submit(1, BatchMenu \cup ParseMenu)
    \/ AllowNoop(1) \/ Work(1) \/ Retire(1)

SpecNoop == InitNoop /\ [][NextNoop]_vars

\* ------------------------------------------------------------ the start of the process

\* app.py:14-18 runs when the module is imported, before any request
Wire ==
    /\ backend = "unwired"
    /\ backend' = CacheWiring(ping)
    /\ UNCHANGED <<ping, store, site, pc, input, current, tasks, response, hRate, hCall, hLine,
                   pArg, pOut>>

InitBoot ==
    /\ ping \in {"ok", "raises"}
    /\ backend = "unwired"
    /\ InitRequests
    /\ NoHarness

\* the import, then one request of any kind
NextBoot ==
    \/ Wire
    \/ Submit(1, BatchMenu \cup ParseMenu)
    \/ AllowIncr(1) \/ AllowExpire(1) \/ AllowNoop(1) \/ Work(1)

SpecBoot == InitBoot /\ [][NextBoot]_vars

\* ------------------------------------------------------------ the cooperative strategy

\* one request to /batch, of up to MaxBatch + 1 lines so that the gate binds;
\* the event loop and the threads behind to_thread run every task that can run
GateBatches == SeqsUpTo({LineInfo, LineError}, MaxBatch + 1) \cup {ExampleBatch}
GateMenu == [endpoint : {"/batch"}, mode : {"plain"}, lines : GateBatches]

NextCoop ==
    \/ Submit(1, GateMenu)
    \/ AllowIncr(1) \/ AllowExpire(1) \/ AllowNoop(1)
    \/ \E i \in 1..(MaxBatch + 1) : TaskGet(1, i) \/ TaskParseSet(1, i)
    \/ Respond(1) \/ CoopFail(1)

FairCoop ==
    \A i \in 1..(MaxBatch + 1) : WF_vars(TaskGet(1, i)) /\ WF_vars(TaskParseSet(1, i))

SpecCoop == Init /\ [][NextCoop]_vars /\ FairCoop

\* ------------------------------------------------------------ two strategies

\* what a store can hold for a line: a level that one of the parsers returned
\* for it and the store accepted
CachedLevels(line) ==
    {parse_level(m, line).val : m \in Modes} \cap Levels

\* the stores a batch can meet: entries, with their expiry armed, for lines
\* of the batch
StoresFor(lines) ==
    LET ks == {line_cache_key(lines[i]) : i \in DOMAIN lines}
        entries == {[has |-> TRUE, val |-> v, n |-> 0, ttl |-> TRUE] : v \in Levels}
        held == {f \in [ks -> {Absent} \cup entries] :
                   \A k \in ks :
                      f[k].has => \E i \in DOMAIN lines :
                                     /\ k = line_cache_key(lines[i])
                                     /\ f[k].val \in CachedLevels(lines[i])}
    IN  {[k \in Keys |-> IF k \in ks THEN f[k] ELSE Absent] : f \in held}

\* the same batch is sent to /batch at site 1 and to /batch_threads at site 2,
\* whose stores hold the same entries
InitEquiv ==
    /\ NoHarness
    /\ ping \in {"ok", "raises"}
    /\ backend = CacheWiring(ping)
    /\ \E mode \in Modes, lines \in Batches :
         /\ input = [r \in Requests |->
                       IF r = 1 THEN [endpoint |-> "/batch", mode |-> mode, lines |-> lines]
                       ELSE IF r = 2 THEN [endpoint |-> "/batch_threads", mode |-> mode, lines |-> lines]
                       ELSE NoInput]
         /\ \E st \in StoresFor(lines) :
              /\ backend = "noop" => st = EmptyStore
              /\ store = [s \in Sites |-> st]
    /\ site = [r \in Requests |-> IF r = 2 THEN 2 ELSE 1]
    /\ pc = [r \in Requests |-> IF r \in {1, 2} THEN "allow" ELSE "idle"]
    /\ current = [r \in Requests |-> 0]
    /\ tasks = [r \in Requests |-> <<>>]
    /\ response = [r \in Requests |-> NoResponse]
    /\ hRate = [s \in Sites |-> [k \in RateKeys |-> FreshRate]]
    /\ hCall = [r \in Requests |-> NoCall]
    /\ hLine = [s \in Sites |-> [k \in LineKeys |-> FreshLine]]

NextEquiv ==
    \/ \E r \in {1, 2} : AllowIncr(r) \/ AllowExpire(r) \/ AllowNoop(r) \/ Work(r)
    \/ \E s \in Sites, k \in LineKeys : ExpireKey(s, k)

SpecEquiv == InitEquiv /\ [][NextEquiv]_vars

\* ------------------------------------------------------------ parse_level alone

InitParse ==
    /\ pArg \in [mode : Modes, line : ParseInputs]
    /\ pOut = Pending
    /\ InitService

Call_parse_level ==
    /\ pOut = Pending
    /\ pOut' = parse_level(pArg.mode, pArg.line)
    /\ UNCHANGED <<pArg, svars>>

NextParse == Call_parse_level

SpecParse == InitParse /\ [][NextParse]_vars

\* ------------------------------------------------------------ properties

BatchEndpoints == {"/batch", "/batch_threads"}

\* the code returns None where the specification says UNKNOWN
Unknown == {None, "UNKNOWN"}

RECURSIVE SumOver(_, _)
SumOver(f, S) ==
    IF S = {} THEN 0
    ELSE LET x == CHOOSE y \in S : TRUE IN f[x] + SumOver(f, S \ {x})
\* the sum of the values of a tally
Total(counts) == SumOver(counts, DOMAIN counts)

\* C1: with the networked store, the counter of every rate key equals the
\* number of allow calls made on it in its window, each call sees the count
\* of its own turn (one more than the call before it), and it returns true if
\* and only if that count is <= the limit: the first RATE_LIMIT calls on a
\* fresh key return true and the next one false.
C1_AllowCountsAndCompares ==
    backend = "redis" =>
       /\ \A k \in RateKeys : store[1][k].n = hRate[1][k].calls
       /\ \A r \in Requests :
             hCall[r].idx > 0 =>
                /\ current[r] = hCall[r].idx
                /\ hCall[r].result = "true" => current[r] <= RATE_LIMIT
                /\ hCall[r].result = "false" => current[r] > RATE_LIMIT

\* C1, witness: RATE_LIMIT calls on a key have returned true and the call
\* after them has returned false
C1_Witness ==
    /\ backend = "redis"
    /\ \E r \in Requests :
         /\ hCall[r].result = "false"
         /\ hCall[r].idx = RATE_LIMIT + 1
         /\ hRate[1][RateKey(input[r].endpoint)].granted = RATE_LIMIT

\* C2: with the networked store, every rate key whose first caller has left
\* allow has its expiry armed, and the first call on a key after the window
\* of a rejection has elapsed sees the count 1, arms a new expiry and
\* returns true.
C2_NewWindowAfterExpiry ==
    backend = "redis" =>
       /\ \A k \in RateKeys :
             (/\ store[1][k].has
              /\ ~\E r \in Requests : pc[r] = "expire" /\ RateKey(input[r].endpoint) = k)
             => store[1][k].ttl
       /\ \A r \in Requests :
             hCall[r].afterReset =>
                /\ current[r] = 1
                /\ hCall[r].result # "none" => hCall[r].result = "true" /\ hCall[r].armed

\* C2, witness: a call made after a rejection's window elapsed has returned
\* true with the count 1 and a new expiry
C2_Witness ==
    /\ backend = "redis"
    /\ \E r \in Requests :
         /\ hCall[r].afterReset
         /\ hCall[r].result = "true"
         /\ hCall[r].armed
         /\ store[1][RateKey(input[r].endpoint)].ttl

\* C3: with the networked store, in every window of every rate key at most
\* RATE_LIMIT calls of allow return true, whatever the interleaving of the
\* callers.
C3_AtMostLimitPerWindow ==
    backend = "redis" => \A k \in RateKeys : hRate[1][k].granted <= RATE_LIMIT

\* C3, witness: two requests are in flight on one key, whose window has
\* admitted RATE_LIMIT calls: one of the two was admitted, the other rejected
C3_Witness ==
    /\ backend = "redis"
    /\ \E r1, r2 \in Requests :
         /\ r1 # r2
         /\ input[r1].endpoint = input[r2].endpoint
         /\ hCall[r1].result = "true"
         /\ hCall[r2].result = "false"
         /\ hRate[1][RateKey(input[r1].endpoint)].granted = RATE_LIMIT

\* C4: with the networked store, a process_line call that starts after a call
\* on the same line has completed, with no expiry of the line's entry in
\* between, returns the same level from the cache: it is a hit, so it neither
\* parses nor writes.
C4_SecondCallIsHit ==
    backend = "redis" =>
       \A r \in Requests : \A i \in DOMAIN tasks[r] :
          (tasks[r][i].after /\ tasks[r][i].st \in {"miss", "done", "raised"}) =>
             /\ tasks[r][i].st = "done"
             /\ tasks[r][i].hit
             /\ tasks[r][i].level = tasks[r][i].prev

\* C5: PlainTextParser.parse_level never raises; it returns the third token
\* when there is one and it is INFO, WARNING or ERROR, and UNKNOWN otherwise.
C5_PlainNeverRaises ==
    (pArg.mode = "plain" /\ pOut # Pending) =>
       LET parts == Split(pArg.line) IN
       /\ pOut.exc = ""
       /\ IF Len(parts) >= 3 /\ parts[3] \in Levels
          THEN pOut.val = parts[3]
          ELSE pOut.val \in Unknown

\* C6: JSONTextParser.parse_level never raises; it returns the value of
\* "level" when the line is a record that holds INFO, WARNING or ERROR there,
\* and UNKNOWN otherwise.
C6_JsonNeverRaises ==
    (pArg.mode = "json" /\ pOut # Pending) =>
       LET obj == json_loads(pArg.line) IN
       /\ pOut.exc = ""
       /\ IF obj.ok /\ obj.k = "dict" /\ obj.lv.k = "str" /\ obj.lv.s \in Levels
          THEN pOut.val = obj.lv.s
          ELSE pOut.val \in Unknown

\* the tally of the example: one INFO, one ERROR, one UNKNOWN
IsExampleTally(counts) ==
    /\ DOMAIN counts \cap Levels = {"INFO", "ERROR"}
    /\ counts["INFO"] = 1
    /\ counts["ERROR"] = 1
    /\ \E u \in Unknown : DOMAIN counts = {"INFO", "ERROR", u} /\ counts[u] = 1

\* C7: no batch request is aborted by a line its parser cannot classify, and
\* the example batch in mode plain is answered with the tally
\* {INFO: 1, ERROR: 1, UNKNOWN: 1}.
C7_MalformedLineNeverAborts ==
    \A r \in Requests :
       input[r].endpoint \in BatchEndpoints =>
          /\ pc[r] \notin {"failed", "shutdown"}
          /\ (pc[r] = "done" /\ input[r].lines = ExampleBatch /\ input[r].mode = "plain")
                => IsExampleTally(response[r].counts)

\* C8: the values of the tally a batch request returns add up to the number
\* of lines of the batch.
C8_TallySumsToLines ==
    \A r \in Requests :
       (input[r].endpoint \in BatchEndpoints /\ pc[r] = "done")
          => Total(response[r].counts) = Len(input[r].lines)

\* C8, witness: a batch of two lines or more is answered, two of its lines
\* under one level
C8_Witness ==
    \E r \in Requests :
       /\ input[r].endpoint \in BatchEndpoints
       /\ pc[r] = "done"
       /\ Len(input[r].lines) >= 2
       /\ \E x \in DOMAIN response[r].counts : response[r].counts[x] >= 2

\* C9: when /batch and /batch_threads are given the same batch and mode and
\* stores with the same entries, and both answer, their tallies are equal.
C9_StrategiesAgree ==
    (pc[1] = "done" /\ pc[2] = "done") => response[1].counts = response[2].counts

\* C10: with the no-op store no lookup is a hit, also of a line whose level
\* has been written before, and no call of allow returns false.
C10_NoopNeverHitsAlwaysAllows ==
    backend = "noop" =>
       /\ \A r \in Requests : \A i \in DOMAIN tasks[r] : ~tasks[r][i].hit
       /\ \A r \in Requests : hCall[r].result # "false"
       /\ store[1] = EmptyStore

\* C10, witness: a request admitted by the no-op store has looked up, and
\* missed, a line for which an earlier call returned (and set) a level
C10_Witness ==
    /\ backend = "noop"
    /\ \E r \in Requests :
         /\ hCall[r].result = "true"
         /\ \E i \in DOMAIN tasks[r] :
              /\ tasks[r][i].after
              /\ tasks[r][i].prev \in Levels
              /\ tasks[r][i].st = "done"
              /\ ~tasks[r][i].hit

\* the faults a cache store raises, and those a parser raises
CacheErrors == {"DataError", "ConnectionError"}
ParserErrors == {"IndexError", "JSONDecodeError", "AttributeError", "TypeError"}

\* C11: when the liveness check of the networked store raises, the import
\* does not fail: the cache is the no-op store, no call of allow returns
\* false, no process_line call raises a fault of the cache, and a request
\* fails only when the parser raised on one of its lines.
C11_FallbackToNoop ==
    (ping = "raises" /\ backend # "unwired") =>
       /\ backend = "noop"
       /\ \A r \in Requests :
             /\ hCall[r].result # "false"
             /\ \A i \in DOMAIN tasks[r] : tasks[r][i].exc \notin CacheErrors
             /\ pc[r] \in {"failed", "shutdown"} =>
                   \E i \in DOMAIN tasks[r] : tasks[r][i].exc \in ParserErrors

\* C11, witness: the liveness check raised, and a batch request was admitted
\* and answered with the tally of its lines
C11_Witness ==
    /\ ping = "raises"
    /\ backend = "noop"
    /\ \E r \in Requests :
         /\ input[r].endpoint \in BatchEndpoints
         /\ hCall[r].result = "true"
         /\ pc[r] = "done"
         /\ response[r].status = "ok"
         /\ Len(input[r].lines) >= 1

\* C12: with the networked store, a process_line call that misses on a line
\* its parser classifies as UNKNOWN returns, and leaves the line's entry in
\* the store; a later call on that line, before the entry expires, is a hit.
C12_UnknownIsCached ==
    backend = "redis" =>
       \A r \in Requests : \A i \in DOMAIN tasks[r] :
          LET t == tasks[r][i]
              line == input[r].lines[i]
              key == line_cache_key(line)
          IN  parse_level(input[r].mode, line) = Ret(None) =>
                 /\ (t.st \in {"done", "raised"} /\ ~t.hit) => t.st = "done"
                 /\ (t.st = "done" /\ hLine[site[r]][key].completed) => store[site[r]][key].has
                 /\ (t.after /\ t.st \in {"miss", "done", "raised"}) => t.hit

\* C13: with the networked store, all process_line calls on the same line
\* return the same level, whatever the request and its mode, and an entry
\* holds the level that every such call returned.
C13_EntryValueNeverChanges ==
    backend = "redis" =>
       \A r1, r2 \in Requests : \A i \in DOMAIN tasks[r1] : \A j \in DOMAIN tasks[r2] :
          (/\ site[r1] = site[r2]
           /\ input[r1].lines[i] = input[r2].lines[j]
           /\ tasks[r1][i].st = "done"
           /\ tasks[r2][j].st = "done")
          => /\ tasks[r1][i].level = tasks[r2][j].level
             /\ LET e == store[site[r1]][line_cache_key(input[r1].lines[i])]
                IN  e.has => e.val = tasks[r1][i].level

\* C14: in a /batch request at most MAX_CONCURRENCY process_line calls are
\* executing at any moment, and every queued task gets through the gate.
C14_GateCapsAndAdmits ==
    /\ [](\A r \in Requests :
             input[r].endpoint = "/batch" => NumExecuting(r) <= MAX_CONCURRENCY)
    /\ \A i \in 1..(MaxBatch + 1) :
          (i \in DOMAIN tasks[1] /\ tasks[1][i].st = "queued")
             ~> (i \in DOMAIN tasks[1] /\ tasks[1][i].st # "queued")

\* C14, witness: MAX_CONCURRENCY calls of a /batch request are executing
\* while another line of the batch waits at the gate
C14_Witness ==
    \E r \in Requests :
       /\ input[r].endpoint = "/batch"
       /\ NumExecuting(r) = MAX_CONCURRENCY
       /\ \E i \in DOMAIN tasks[r] : tasks[r][i].st = "queued"

\* C15: the levels a /batch request collects are in submission order: the
\* i-th is what the call on the i-th line returned, the level of that line.
C15_ResultsInSubmissionOrder ==
    \A r \in Requests :
       (input[r].endpoint = "/batch" /\ pc[r] = "done") =>
          /\ Len(response[r].levels) = Len(input[r].lines)
          /\ \A i \in DOMAIN input[r].lines :
                /\ response[r].levels[i] = tasks[r][i].level
                /\ response[r].levels[i] = parse_level(input[r].mode, input[r].lines[i]).val

\* C15, witness: a /batch request has collected its levels, and a line with
\* another level, submitted later, was classified earlier
C15_Witness ==
    \E r \in Requests :
       /\ input[r].endpoint = "/batch"
       /\ pc[r] = "done"
       /\ \E i, j \in DOMAIN tasks[r] :
            /\ i < j
            /\ tasks[r][j].ord < tasks[r][i].ord
            /\ response[r].levels[i] # response[r].levels[j]

\* C16: with the networked store, the expiry of every rate key is armed once
\* in each window, by the caller whose increment returned 1: never twice, and
\* not zero times once that caller has left allow.
C16_ExpiryArmedOnce ==
    backend = "redis" =>
       /\ \A k \in RateKeys :
             LET opening == \E r \in Requests :
                               pc[r] = "expire" /\ RateKey(input[r].endpoint) = k
             IN  /\ hRate[1][k].arms <= 1
                 /\ (store[1][k].has /\ ~opening) => hRate[1][k].arms = 1
                 /\ store[1][k].ttl <=> hRate[1][k].arms = 1
       /\ \A r \in Requests :
             /\ hCall[r].armed => current[r] = 1
             /\ pc[r] = "expire" => current[r] = 1

\* C16, witness: two callers have incremented a key in one window, whose
\* expiry was armed once, by the one that saw the count 1
C16_Witness ==
    /\ backend = "redis"
    /\ \E r1, r2 \in Requests :
         /\ r1 # r2
         /\ input[r1].endpoint = input[r2].endpoint
         /\ hCall[r1].armed
         /\ hCall[r1].idx = 1
         /\ hCall[r2].idx = 2
         /\ ~hCall[r2].armed
         /\ hRate[1][RateKey(input[r1].endpoint)].arms = 1
         /\ hRate[1][RateKey(input[r1].endpoint)].calls >= 2

\* C17 as stated: a request to a rate-limited endpoint is admitted by the one
\* call of allow it makes: no call of its was rejected before.
C17_AllowOncePerRequest ==
    \A r \in Requests : hCall[r].result = "true" => ~hCall[r].waited

\* C17, amended: a request calls allow once per admission attempt and never
\* per line: only a request in its allow loop calls allow, each call adds
\* exactly one to the counter of its endpoint, and nothing else changes a
\* counter but the expiry of its key.
C17_AllowOncePerAttempt ==
    [][/\ \A r \in Requests : hCall'[r] # hCall[r] => pc[r] \in {"allow", "expire"}
       /\ \A k \in RateKeys :
             store'[1][k].n # store[1][k].n =>
                \/ store'[1][k] = Absent
                \/ /\ store'[1][k].n = store[1][k].n + 1
                   /\ \E r \in Requests :
                        /\ pc[r] = "allow"
                        /\ RateKey(input[r].endpoint) = k
                        /\ hCall'[r] # hCall[r]
                        /\ \A q \in Requests \ {r} : hCall'[q] = hCall[q]]_vars

\* C17, witness: a request of two lines was rejected, waited, and was admitted
\* by a later call
C17_Witness ==
    \E r \in Requests :
       /\ Len(input[r].lines) >= 2
       /\ hCall[r].result = "true"
       /\ hCall[r].waited

\* C19: with the networked store, a request whose call of allow was rejected
\* is admitted later, and a rejected call never arms an expiry.
C19_RejectedIsAdmittedLater ==
    /\ [](\A r \in Requests : hCall[r].result = "false" => ~hCall[r].armed)
    /\ \A r \in Requests : (hCall[r].result = "false") ~> (hCall[r].result = "true")

\* C19, witness: a request that was rejected has been admitted, in a window
\* it opened itself after the rejecting one had elapsed
C19_Witness ==
    /\ backend = "redis"
    /\ \E r \in Requests :
         /\ hCall[r].waited
         /\ hCall[r].result = "true"
         /\ hCall[r].afterReset
         /\ hCall[r].armed

\* C18: a /batch_threads request in which a process_line call raised is
\* never answered with counts: it fails, with no tally and no level.
C18_ThreadFaultAbortsBatch ==
    \A r \in Requests :
       (/\ input[r].endpoint = "/batch_threads"
        /\ \E i \in DOMAIN tasks[r] : tasks[r][i].st = "raised")
       => /\ pc[r] \in {"running", "shutdown", "failed"}
          /\ response[r].status # "ok"
          /\ response[r].counts = NoResponse.counts
          /\ response[r].levels = <<>>
          /\ pc[r] = "failed" => response[r].status = "error"

\* C18, witness: a /batch_threads request has failed after the level of one
\* of its lines was written to the store, where it still is
C18_Witness ==
    /\ backend = "redis"
    /\ \E r \in Requests :
         /\ input[r].endpoint = "/batch_threads"
         /\ pc[r] = "failed"
         /\ response[r].status = "error"
         /\ \E i \in DOMAIN tasks[r] :
              LET e == store[site[r]][line_cache_key(input[r].lines[i])]
              IN  /\ tasks[r][i].st = "done"
                  /\ ~tasks[r][i].hit
                  /\ e.has
                  /\ e.val = tasks[r][i].level

\* C20: with the networked store, the parser is invoked at most once on a
\* line that it classifies, while the line's entry is unexpired, however many
\* workers and requests process the line at once.
C20_ParsedOncePerFingerprint ==
    backend = "redis" =>
       \A l \in ServiceLines :
          (\A m \in Modes : parse_level(m, l).val \in Levels)
             => hLine[1][line_cache_key(l)].parses <= 1

====
